---- MODULE Spec2Model ----
(***************************************************************************)
(* Control plane of the carrier peer (src/src/peer.rs).                    *)
(*                                                                         *)
(* Two peer processes are modelled.  Peer "A" is the initiator: it calls   *)
(* Peer::run_service.  Peer "B" is the responder: it calls Peer::run.      *)
(* The bearer, the hole-punch transport and every other remote peer are    *)
(* the environment.                                                        *)
(*                                                                         *)
(* A step of a poll function is one iteration of its `loop`: one item is   *)
(* taken from the stream and handled to the end of the loop body.          *)
(*                                                                         *)
(* In one behaviour the environment acts on one channel, `focus`: the      *)
(* bearer substream of A or of B, a foreign substream towards A or B, or   *)
(* the direct connection d (its transport, or a target that is not a peer  *)
(* of this program).  The direct substream between A and B is there in     *)
(* every behaviour.                                                        *)
(***************************************************************************)
EXTENDS Naturals, Sequences, FiniteSets, TLC

\* Bounds of the model.
MaxEnv == 2     \* events of the environment (messages, closes, faults), in total

Peers == {"A", "B"}
Names == {"echo", "nope"}
NoService == "none"
Impls == {"s1", "s2"}

\* Protocol (the variants used by peer.rs) and the two non-message results
\* of Stream::poll: end of stream (Ready(None)) and a read error (Err).
Msg(t) == [type |-> t, name |-> ""]
Hello == Msg("Hello")
ConnectToPeer == Msg("ConnectToPeer")
PeerNotFound == Msg("PeerNotFound")
ServiceConnectionEstablished == Msg("ServiceConnectionEstablished")
ServiceNotFound == Msg("ServiceNotFound")
RequestServiceMsg(n) == [type |-> "RequestService", name |-> n]
StreamEnd == Msg("EOF")
StreamErr == Msg("ERR")

Protocol ==
  {Hello, ConnectToPeer, PeerNotFound, ServiceConnectionEstablished, ServiceNotFound}
    \cup {RequestServiceMsg(n) : n \in Names}

\* Substreams that a Connection handler can own.
\*   ba, bb : the bearer substream of A and of B (Peer.server_con)
\*   xa, xb : a substream opened towards A / B by some other remote peer
\*   d      : the direct substream from A to the target of run_service
BearerOf(p) == IF p = "A" THEN "ba" ELSE "bb"
HStreams == {"ba", "bb", "xa", "xb", "d"}
Bearers == {"ba", "bb"}
Foreign == {"xa", "xb"}
Owner(s) == IF s \in {"ba", "xa"} THEN "A" ELSE "B"
\* Write sides that can break: every handler's, and A's end of d ("rq").
WSides == HStreams \cup {"rq"}

VARIABLES
  services,    \* PeerContext.services of each peer: name -> service or NoService
  proc,        \* process of each peer: "up", "exited", "failed", "panicked"
  pc,          \* position of A in run_service
  result,      \* what run_service returned ("none" while it runs)
  reqName,     \* service.name() of the client service given to run_service
  nextId,      \* connection ids generated so far by A
  hp,          \* the future of create_connection_to_peer
  remote,      \* who answers on d: "peer" (B's handler) or "env"
  ctx,         \* the incoming-stream feed of Context of each peer
  incoming,    \* substreams Context::poll will yield, per peer
  opened,      \* foreign substreams that were opened
  chan,        \* items Stream::poll will yield to the handler of a substream
  hstate,      \* Connection future of a substream
  slot,        \* Connection.stream is Some
  sent,        \* messages the local side sent on a substream (history)
  reqLog,      \* names of the RequestService messages a handler consumed (history)
  nread,       \* items a handler consumed (history)
  svcStarts,   \* calls of Server::spawn that took the substream
  wbroken,     \* write sides on which send_and_poll fails
  rqIn,        \* items Stream::poll will yield to RequestService on d
  rqSlot,      \* RequestService.stream is Some
  rqSeen,      \* items RequestService consumed (history)
  rqOut,       \* outcome of the RequestService future
  clientStarts, \* calls of Client::start
  rqSent,      \* RequestService messages A sent on d (history)
  rdv,         \* how the rendezvous step of run_service ended (history)
  pnfSeen,     \* substreams whose handler consumed PeerNotFound (history)
  envEvents,     \* events of the environment so far
  focus        \* the channel the environment acts on in this behaviour

\* A service session (the test service of tests/common/mod.rs on both sides).
VARIABLES
  stream_num,  \* TestService.stream_num of the client and of the server
  toOpen,      \* new_stream futures of each side that have not resolved yet
  wire,        \* substreams opened by a side, on their way to the other side
  feed,        \* the incoming feed of each side's Streams
  payload,     \* per substream: chunks written by the server, not yet read
  written,     \* per substream: number of writes by the server
  taken,       \* substreams the client's for_each has received
  readers,     \* substreams whose reader task has not finished
  nreadS,      \* per substream: chunks read by the client
  recvq,       \* the unbounded channel from the reader tasks to the fold
  foldRes,     \* the accumulator `res` of the fold
  data         \* what run_service resolved to: "pending" or "ok" (with res)

sessVars == <<stream_num, toOpen, wire, feed, payload, written, taken, readers,
              nreadS, recvq, foldRes, data>>

\* The build phase.
VARIABLES
  regCalls     \* the calls of register_service on each builder (history)

\* The PeerBuilder of each peer (src/src/peer_builder.rs) while its key is
\* configured.
VARIABLES
  private_key,       \* PeerBuilder.private_key: None or (format, data)
  private_key_file,  \* PeerBuilder.private_key_file: None or a path
  keyCalls,          \* the calls of the two key setters on a builder (history)
  built              \* what build returned ("none" before it is called)

keyVars == <<private_key, private_key_file, keyCalls, built>>

buildVars == <<regCalls, keyVars>>

vars == <<buildVars, sessVars, services, proc, pc, result, reqName, nextId, hp, remote, ctx, incoming,
          opened, chan, hstate, slot, sent, reqLog, nread, svcStarts, wbroken,
          rqIn, rqSlot, rqSeen, rqOut, clientStarts, rqSent, rdv, pnfSeen,
          envEvents, focus>>

peerVars == <<services, focus, proc, ctx, incoming>>
runVars == <<pc, result, rdv, reqName, nextId, hp, remote>>
connVars == <<chan, hstate, slot, sent, reqLog, nread, svcStarts, pnfSeen>>
rqVars == <<rqIn, rqSlot, rqSeen, rqOut, clientStarts, rqSent>>
envVars == <<opened, wbroken, envEvents>>

MaxOpen == 2
Sides == {"client", "server"}
Other(side) == IF side = "client" THEN "server" ELSE "client"
Initial == [by |-> "init", k |-> 0]
Opened(side, i) == [by |-> side, k |-> i]
AllStreams == {Initial} \cup {Opened(side, i) : side \in Sides, i \in 1..MaxOpen}

\* No service session is running.
NoSession ==
  /\ stream_num = [side \in Sides |-> 0]
  /\ toOpen = [side \in Sides |-> 0]
  /\ wire = [side \in Sides |-> <<>>]
  /\ feed = [side \in Sides |-> <<>>]
  /\ payload = [st \in AllStreams |-> <<>>]
  /\ written = [st \in AllStreams |-> 0]
  /\ taken = {}
  /\ readers = {}
  /\ nreadS = [st \in AllStreams |-> 0]
  /\ recvq = <<>>
  /\ foldRes = <<>>
  /\ data = "pending"

Last(q) == q[Len(q)]
Closed(q) == q # <<>> /\ Last(q).type \in {"EOF", "ERR"}
CloseQ(q) == IF Closed(q) THEN q ELSE Append(q, StreamEnd)
Put(q, m) == IF Closed(q) THEN q ELSE Append(q, m)

Registered(p, n) == services[p][n] # NoService

\* PeerContext::new: the empty service map.
NoServices == [n \in Names |-> NoService]

\* Variant: a name that is registered keeps its service.
Insert_KeepsFirst(map, n, i) == IF map[n] # NoService THEN map ELSE [map EXCEPT ![n] = i]

\* register_service: services.insert(name, Box::new(service)).
Insert(map, n, i) == [map EXCEPT ![n] = i]

Call(n, i) == [name |-> n, impl |-> i]

\* The service map after the build phase: register_service was called once,
\* with a service named "echo"; no service is named "nope".
Registrations == [n \in Names |-> IF n = "echo" THEN "s1" ELSE NoService]

\* Option::None of the two key fields.
None == [some |-> FALSE]

\* PeerBuilder::new: no key was given yet.  The key fields play no part once
\* a peer runs and keep these values.
NewBuilderKeys ==
  /\ private_key = [p \in Peers |-> None]
  /\ private_key_file = [p \in Peers |-> None]
  /\ keyCalls = [p \in Peers |-> <<>>]
  /\ built = [p \in Peers |-> [kind |-> "none", why |-> "", identity |-> ""]]

(***************************************************************************)
(* PeerBuilder::build: Connection::new on the bearer substream, then       *)
(* send_hello.  Init is the state after both peers were built.             *)
(***************************************************************************)
\* Variant: build does not call send_hello.
SendHello_Skipped == <<>>

\* Connection::send_hello, called by build on the bearer substream: what it
\* sends.
SendHello == <<Hello>>

InitPeers ==
  /\ services = [p \in Peers |-> Registrations]
  /\ regCalls = [p \in Peers |-> <<Call("echo", "s1")>>]
  /\ proc = [p \in Peers |-> "up"]
  /\ pc = "start"
  /\ result = "none"
  /\ reqName = "none"
  /\ nextId = 0
  /\ hp = "idle"
  /\ remote = "none"
  /\ ctx = [p \in Peers |-> "open"]
  /\ incoming = [p \in Peers |-> <<>>]
  /\ opened = {}
  /\ chan = [s \in HStreams |-> <<>>]
  /\ hstate = [s \in HStreams |-> IF s \in Bearers THEN "running" ELSE "unborn"]
  /\ slot = [s \in HStreams |-> s \in Bearers]
  /\ sent = [s \in HStreams |-> IF s \in Bearers THEN SendHello ELSE <<>>]
  /\ reqLog = [s \in HStreams |-> <<>>]
  /\ nread = [s \in HStreams |-> 0]
  /\ svcStarts = [s \in HStreams |-> 0]
  /\ wbroken = [w \in WSides |-> FALSE]
  /\ rqIn = <<>>
  /\ rqSlot = FALSE
  /\ rqSeen = <<>>
  /\ rqOut = "none"
  /\ clientStarts = 0
  /\ rqSent = 0
  /\ rdv = "none"
  /\ pnfSeen = {}
  /\ envEvents = 0
  /\ focus \in HStreams
  /\ NewBuilderKeys

Init == InitPeers /\ NoSession

(***************************************************************************)
(* Connection::poll, one iteration of its loop on the item m.              *)
(*   reg      the service map of the peer (PeerContext.services)           *)
(*   canSend  send_and_poll succeeds on this substream                     *)
(*   spawnOk  Server::spawn returns Ok                                     *)
(* Result: st the future afterwards ("running": the loop goes on), slot    *)
(* whether Connection.stream is still Some, out the messages sent, spawn   *)
(* whether the service took the substream.                                 *)
(***************************************************************************)
Res(st, sl, out, sp) == [st |-> st, slot |-> sl, out |-> out, spawn |-> sp]

\* Variants of ConnectionPoll with one branch changed.
\* The miss branch sends no response.
ConnectionPoll_MissSilent(m, reg, canSend, spawnOk) ==
  CASE m.type = "EOF" -> Res("done", TRUE, <<>>, FALSE)
    [] m.type = "ERR" -> Res("err_read", TRUE, <<>>, FALSE)
    [] m.type = "RequestService" ->
         IF reg[m.name] # NoService
           THEN IF ~canSend THEN Res("err_send", TRUE, <<>>, FALSE)
                ELSE IF ~spawnOk
                  THEN Res("err_spawn", FALSE, <<ServiceConnectionEstablished>>, FALSE)
                  ELSE Res("done", FALSE, <<ServiceConnectionEstablished>>, TRUE)
           ELSE Res("running", TRUE, <<>>, FALSE)
    [] m.type = "PeerNotFound" -> Res("panic", TRUE, <<>>, FALSE)
    [] OTHER -> Res("running", TRUE, <<>>, FALSE)

\* The hit branch hands a clone of the substream over and goes on reading.
ConnectionPoll_NoReturn(m, reg, canSend, spawnOk) ==
  CASE m.type = "EOF" -> Res("done", TRUE, <<>>, FALSE)
    [] m.type = "ERR" -> Res("err_read", TRUE, <<>>, FALSE)
    [] m.type = "RequestService" ->
         IF reg[m.name] # NoService
           THEN IF ~canSend THEN Res("err_send", TRUE, <<>>, FALSE)
                ELSE IF ~spawnOk
                  THEN Res("err_spawn", FALSE, <<ServiceConnectionEstablished>>, FALSE)
                  ELSE Res("running", TRUE, <<ServiceConnectionEstablished>>, TRUE)
           ELSE IF ~canSend THEN Res("err_send", TRUE, <<>>, FALSE)
                ELSE Res("running", TRUE, <<ServiceNotFound>>, FALSE)
    [] m.type = "PeerNotFound" -> Res("panic", TRUE, <<>>, FALSE)
    [] OTHER -> Res("running", TRUE, <<>>, FALSE)

\* The miss branch returns after sending ServiceNotFound.
ConnectionPoll_MissEnds(m, reg, canSend, spawnOk) ==
  CASE m.type = "EOF" -> Res("done", TRUE, <<>>, FALSE)
    [] m.type = "ERR" -> Res("err_read", TRUE, <<>>, FALSE)
    [] m.type = "RequestService" ->
         IF reg[m.name] # NoService
           THEN IF ~canSend THEN Res("err_send", TRUE, <<>>, FALSE)
                ELSE IF ~spawnOk
                  THEN Res("err_spawn", FALSE, <<ServiceConnectionEstablished>>, FALSE)
                  ELSE Res("done", FALSE, <<ServiceConnectionEstablished>>, TRUE)
           ELSE IF ~canSend THEN Res("err_send", TRUE, <<>>, FALSE)
                ELSE Res("done", TRUE, <<ServiceNotFound>>, FALSE)
    [] m.type = "PeerNotFound" -> Res("panic", TRUE, <<>>, FALSE)
    [] OTHER -> Res("running", TRUE, <<>>, FALSE)

\* The hit branch leaves the substream in the handler (no take()).
ConnectionPoll_KeepsStream(m, reg, canSend, spawnOk) ==
  CASE m.type = "EOF" -> Res("done", TRUE, <<>>, FALSE)
    [] m.type = "ERR" -> Res("err_read", TRUE, <<>>, FALSE)
    [] m.type = "RequestService" ->
         IF reg[m.name] # NoService
           THEN IF ~canSend THEN Res("err_send", TRUE, <<>>, FALSE)
                ELSE IF ~spawnOk
                  THEN Res("err_spawn", FALSE, <<ServiceConnectionEstablished>>, FALSE)
                  ELSE Res("done", TRUE, <<ServiceConnectionEstablished>>, TRUE)
           ELSE IF ~canSend THEN Res("err_send", TRUE, <<>>, FALSE)
                ELSE Res("running", TRUE, <<ServiceNotFound>>, FALSE)
    [] m.type = "PeerNotFound" -> Res("panic", TRUE, <<>>, FALSE)
    [] OTHER -> Res("running", TRUE, <<>>, FALSE)

\* A message of the catch-all arm ends the handler.
ConnectionPoll_OtherEnds(m, reg, canSend, spawnOk) ==
  CASE m.type = "EOF" -> Res("done", TRUE, <<>>, FALSE)
    [] m.type = "ERR" -> Res("err_read", TRUE, <<>>, FALSE)
    [] m.type = "RequestService" ->
         IF reg[m.name] # NoService
           THEN IF ~canSend THEN Res("err_send", TRUE, <<>>, FALSE)
                ELSE IF ~spawnOk
                  THEN Res("err_spawn", FALSE, <<ServiceConnectionEstablished>>, FALSE)
                  ELSE Res("done", FALSE, <<ServiceConnectionEstablished>>, TRUE)
           ELSE IF ~canSend THEN Res("err_send", TRUE, <<>>, FALSE)
                ELSE Res("running", TRUE, <<ServiceNotFound>>, FALSE)
    [] m.type = "PeerNotFound" -> Res("panic", TRUE, <<>>, FALSE)
    [] OTHER -> Res("done", TRUE, <<>>, FALSE)

\* The hit branch takes the substream out and goes on with the loop.
ConnectionPoll_TakeGoesOn(m, reg, canSend, spawnOk) ==
  CASE m.type = "EOF" -> Res("done", TRUE, <<>>, FALSE)
    [] m.type = "ERR" -> Res("err_read", TRUE, <<>>, FALSE)
    [] m.type = "RequestService" ->
         IF reg[m.name] # NoService
           THEN IF ~canSend THEN Res("err_send", TRUE, <<>>, FALSE)
                ELSE IF ~spawnOk
                  THEN Res("err_spawn", FALSE, <<ServiceConnectionEstablished>>, FALSE)
                  ELSE Res("running", FALSE, <<ServiceConnectionEstablished>>, TRUE)
           ELSE IF ~canSend THEN Res("err_send", TRUE, <<>>, FALSE)
                ELSE Res("running", TRUE, <<ServiceNotFound>>, FALSE)
    [] m.type = "PeerNotFound" -> Res("panic", TRUE, <<>>, FALSE)
    [] OTHER -> Res("running", TRUE, <<>>, FALSE)

\* The result of send_and_poll is dropped in both branches.
ConnectionPoll_SendUnchecked(m, reg, canSend, spawnOk) ==
  CASE m.type = "EOF" -> Res("done", TRUE, <<>>, FALSE)
    [] m.type = "ERR" -> Res("err_read", TRUE, <<>>, FALSE)
    [] m.type = "RequestService" ->
         IF reg[m.name] # NoService
           THEN IF ~spawnOk
                  THEN Res("err_spawn", FALSE,
                           IF canSend THEN <<ServiceConnectionEstablished>> ELSE <<>>, FALSE)
                  ELSE Res("done", FALSE,
                           IF canSend THEN <<ServiceConnectionEstablished>> ELSE <<>>, TRUE)
           ELSE Res("running", TRUE, IF canSend THEN <<ServiceNotFound>> ELSE <<>>, FALSE)
    [] m.type = "PeerNotFound" -> Res("panic", TRUE, <<>>, FALSE)
    [] OTHER -> Res("running", TRUE, <<>>, FALSE)

ConnectionPoll(m, reg, canSend, spawnOk) ==
  CASE m.type = "EOF" -> Res("done", TRUE, <<>>, FALSE)
    [] m.type = "ERR" -> Res("err_read", TRUE, <<>>, FALSE)
    [] m.type = "RequestService" ->
         IF reg[m.name] # NoService
           THEN IF ~canSend THEN Res("err_send", TRUE, <<>>, FALSE)
                ELSE IF ~spawnOk
                  THEN Res("err_spawn", FALSE, <<ServiceConnectionEstablished>>, FALSE)
                  ELSE Res("done", FALSE, <<ServiceConnectionEstablished>>, TRUE)
           ELSE IF ~canSend THEN Res("err_send", TRUE, <<>>, FALSE)
                ELSE Res("running", TRUE, <<ServiceNotFound>>, FALSE)
    [] m.type = "PeerNotFound" -> Res("panic", TRUE, <<>>, FALSE)
    [] OTHER -> Res("running", TRUE, <<>>, FALSE)

\* Peer::poll, its first statement: what the poll of server_con makes of the
\* poll of Peer ("notready": Peer::poll goes on to the accept loop).
\* Variant: the result of server_con.poll() is not looked at.
PeerPollServerCon_IgnoresReady(st) ==
  CASE st = "running" -> "notready"
    [] st = "done" -> "notready"
    [] st = "panic" -> "panic"
    [] OTHER -> "err"

PeerPollServerCon(st) ==
  CASE st = "running" -> "notready"
    [] st = "done" -> "ready"
    [] st = "panic" -> "panic"
    [] OTHER -> "err"

\* Variant: the error of a spawned handler ends the event loop.
SpawnedOutcome_Propagates(st) ==
  IF st = "panic" THEN "panic"
  ELSE IF st \in {"running", "done"} THEN "notready" ELSE "err"

\* A handler spawned on the event loop: its error is printed and dropped
\* (map_err(eprintln!)); its panic unwinds the event loop.
SpawnedOutcome(st) == IF st = "panic" THEN "panic" ELSE "notready"

\* run_service, the match on the result of con.select2(&mut self) when the
\* Peer side (Either::B) ended the select.
RunServiceSelect(o) ==
  CASE o = "ready" -> "bearer_lost"
    [] o = "err" -> "err_transport"
    [] OTHER -> "panic"

\* The event loop of p is running: Core::run is polling the spawned tasks.
LoopRunning(p) ==
  /\ proc[p] = "up"
  /\ p = "A" => pc \in {"rendezvous", "request", "service"}

\* Variant: run_service keeps polling the Peer after the rendezvous.
PeerPolled_WholeRun(p) ==
  /\ proc[p] = "up"
  /\ p = "A" => (pc \in {"request", "service"} \/ (pc = "rendezvous" /\ hp = "pending"))

\* Peer::poll of p is being polled: by select2 in run_service, which polls
\* the connection future first, or by Core::run in Peer::run.
PeerPolled(p) ==
  /\ proc[p] = "up"
  /\ p = "A" => (pc = "rendezvous" /\ hp = "pending")

\* Effect on the process of p of a poll that ended with o.
ProcStep(p, o) ==
  /\ proc' = [proc EXCEPT ![p] =
                CASE o = "notready" -> @
                  [] o = "panic" -> "panicked"
                  [] o = "err" -> "failed"
                  [] OTHER -> "exited"]
  /\ pc' = IF p = "A" /\ o # "notready" THEN "done" ELSE pc
  /\ result' = IF p = "A" /\ o # "notready" THEN RunServiceSelect(o) ELSE result
  /\ rdv' = IF p = "A" /\ o # "notready" /\ pc = "rendezvous"
             THEN RunServiceSelect(o) ELSE rdv

\* The substream queues after the handler of s consumed its head with result
\* r and the process of p ended with o.  A process that ends drops its end
\* of d; a handler that ends without handing d to a service drops it too.
NextChan(s, p, o) ==
  [t \in HStreams |->
     LET q == IF t = s THEN Tail(chan[t]) ELSE chan[t]
     IN IF t = "d" /\ p = "A" /\ o # "notready" /\ remote = "peer"
          THEN CloseQ(q) ELSE q]

Puts(q, out) == IF out = <<>> THEN q ELSE Put(q, out[1])

NextRqIn(s, r, p, o) ==
  LET q == IF s = "d" THEN Puts(rqIn, r.out) ELSE rqIn
      dropD == \/ s = "d" /\ r.st \notin {"running", "panic"} /\ ~r.spawn
               \/ p = "B" /\ o # "notready" /\ remote = "peer"
  IN IF dropD THEN CloseQ(q) ELSE q

\* Variant: the lookup takes the service out of the map (remove).
GetMut_Removes(reg, n) == [reg EXCEPT ![n] = NoService]

\* services.get_mut(&name) in Connection::poll: the service map after the
\* lookup.
GetMut(reg, n) == reg

\* Variant: the newest item of the substream is yielded first.
StreamPoll_Newest(q) == Last(q)

\* self.stream.poll() in Connection::poll: the item it yields, the oldest one
\* that arrived and was not yielded yet.
StreamPoll(q) == Head(q)

\* One iteration of Connection::poll on substream s, and what its result
\* means for whoever polled it: Peer::poll for the bearer substream, the
\* event loop for a spawned handler.
ConnStep(s, spawnOk) ==
  LET p == Owner(s)
      m == StreamPoll(chan[s])
      r == ConnectionPoll(m, services[p], ~wbroken[s], spawnOk)
      o == IF s \in Bearers THEN PeerPollServerCon(r.st) ELSE SpawnedOutcome(r.st)
  IN /\ hstate[s] = "running"
     /\ chan[s] # <<>>
     /\ IF s \in Bearers THEN PeerPolled(p) ELSE LoopRunning(p)
     /\ hstate' = [hstate EXCEPT ![s] = r.st]
     /\ slot' = [slot EXCEPT ![s] = r.slot]
     /\ sent' = [sent EXCEPT ![s] = @ \o r.out]
     /\ reqLog' = [reqLog EXCEPT ![s] =
                     IF m.type = "RequestService" THEN Append(@, m.name) ELSE @]
     /\ nread' = [nread EXCEPT ![s] = @ + 1]
     /\ svcStarts' = [svcStarts EXCEPT ![s] = IF r.spawn THEN @ + 1 ELSE @]
     /\ pnfSeen' = IF m.type = "PeerNotFound" THEN pnfSeen \cup {s} ELSE pnfSeen
     /\ chan' = NextChan(s, p, o)
     /\ rqIn' = NextRqIn(s, r, p, o)
     /\ ProcStep(p, o)
     /\ services' = [services EXCEPT ![p] =
                       IF m.type = "RequestService" THEN GetMut(@, m.name) ELSE @]
     /\ UNCHANGED <<buildVars, sessVars, focus, ctx, incoming, reqName, nextId, hp, remote,
                    rqSlot, rqSeen, rqOut, clientStarts, rqSent, envVars>>

\* Peer::poll, the accept loop, one iteration: reached when server_con is
\* not ready.  Context::poll yields a substream, the end of the feed or an
\* error.
PeerPollAccept(p) ==
  /\ PeerPolled(p)
  /\ hstate[BearerOf(p)] = "running"
  /\ chan[BearerOf(p)] = <<>>
  /\ \/ /\ incoming[p] # <<>>
        /\ hstate' = [hstate EXCEPT ![Head(incoming[p])] = "running"]
        /\ slot' = [slot EXCEPT ![Head(incoming[p])] = TRUE]
        /\ incoming' = [incoming EXCEPT ![p] = Tail(@)]
        /\ UNCHANGED <<proc, pc, result, rdv, chan, rqIn>>
     \/ /\ incoming[p] = <<>>
        /\ ctx[p] # "open"
        /\ LET o == IF ctx[p] = "ended" THEN "ready" ELSE "err"
           IN /\ ProcStep(p, o)
              /\ chan' = [chan EXCEPT !["d"] =
                            IF p = "A" /\ remote = "peer" THEN CloseQ(@) ELSE @]
              /\ rqIn' = IF p = "B" /\ remote = "peer" THEN CloseQ(rqIn) ELSE rqIn
        /\ UNCHANGED <<hstate, slot, incoming>>
  /\ UNCHANGED <<buildVars, sessVars, services, focus, ctx, reqName, nextId, hp, remote, sent, reqLog, nread,
                 svcStarts, pnfSeen, rqSlot, rqSeen, rqOut, clientStarts, rqSent, envVars>>

(***************************************************************************)
(* Peer::run_service                                                       *)
(***************************************************************************)
\* run_service returns res: the Peer (self) and whatever run_service still
\* holds are dropped, A's end of d included.
Finish(res) ==
  /\ pc' = "done"
  /\ result' = res
  /\ proc' = [proc EXCEPT !["A"] = IF res = "ok" THEN "exited" ELSE "failed"]
  /\ chan' = [chan EXCEPT !["d"] = IF remote = "peer" THEN CloseQ(@) ELSE @]

\* generate_connection_id, then create_connection_to_peer, which sends
\* ConnectToPeer over the bearer substream.
RunServiceStart(n) ==
  /\ pc = "start"
  /\ proc["A"] = "up"
  /\ reqName' = n
  /\ nextId' = nextId + 1
  /\ IF wbroken["ba"]
       THEN /\ Finish("err_transport")
            /\ UNCHANGED <<hp, sent, rdv>>
       ELSE /\ hp' = "pending"
            /\ pc' = "rendezvous"
            /\ rdv' = "pending"
            /\ sent' = [sent EXCEPT !["ba"] = Append(@, ConnectToPeer)]
            /\ UNCHANGED <<result, proc, chan>>
  /\ UNCHANGED <<buildVars, sessVars, services, focus, ctx, incoming, remote, hstate, slot, reqLog, nread,
                 svcStarts, pnfSeen, rqVars, envVars>>

\* select2 polls the connection future first.  When it is ready run_service
\* goes on to RequestService::start, which sends RequestService{name} on the
\* direct substream; when it failed run_service returns the error.
RendezvousCon ==
  /\ pc = "rendezvous"
  /\ proc["A"] = "up"
  /\ hp \in {"ready", "failed"}
  /\ rdv' = IF hp = "ready" THEN "ready" ELSE "err_transport"
  /\ IF hp = "failed" \/ wbroken["rq"]
       THEN /\ Finish("err_transport")
            /\ UNCHANGED <<rqSlot, rqOut, rqSent>>
       ELSE /\ pc' = "request"
            /\ rqSlot' = TRUE
            /\ rqOut' = "pending"
            /\ rqSent' = rqSent + 1
            /\ chan' = [chan EXCEPT !["d"] =
                          IF remote = "peer" THEN Put(@, RequestServiceMsg(reqName)) ELSE @]
            /\ UNCHANGED <<result, proc>>
  /\ UNCHANGED <<buildVars, sessVars, services, focus, ctx, incoming, reqName, nextId, hp, remote, hstate, slot,
                 sent, reqLog, nread, svcStarts, pnfSeen, rqIn, rqSeen, clientStarts,
                 envVars>>

\* RequestService::poll, one iteration of its loop on the item m: the
\* outcome of the future ("pending": the loop goes on).
\* Variant: ServiceNotFound falls into the catch-all arm.
RequestServicePoll_SkipsNotFound(m) ==
  CASE m.type = "EOF" -> "conn_closed"
    [] m.type = "ERR" -> "err_transport"
    [] m.type = "ServiceConnectionEstablished" -> "stream"
    [] OTHER -> "pending"

\* Variant: a message that is neither response ends the request.
RequestServicePoll_OtherFails(m) ==
  CASE m.type = "EOF" -> "conn_closed"
    [] m.type = "ERR" -> "err_transport"
    [] m.type = "ServiceNotFound" -> "service_not_found"
    [] m.type = "ServiceConnectionEstablished" -> "stream"
    [] OTHER -> "conn_closed"

RequestServicePoll(m) ==
  CASE m.type = "EOF" -> "conn_closed"
    [] m.type = "ERR" -> "err_transport"
    [] m.type = "ServiceNotFound" -> "service_not_found"
    [] m.type = "ServiceConnectionEstablished" -> "stream"
    [] OTHER -> "pending"

\* evt_loop.run(RequestService) and, once it returned the promoted
\* substream, service.start(&self.handle, con)?.
RequestStep(startOk) ==
  LET o == RequestServicePoll(Head(rqIn))
  IN /\ pc = "request"
     /\ proc["A"] = "up"
     /\ rqIn # <<>>
     /\ rqIn' = Tail(rqIn)
     /\ rqSeen' = Append(rqSeen, Head(rqIn).type)
     /\ rqOut' = o
     /\ rqSlot' = (o # "stream")
     /\ clientStarts' = IF o = "stream" THEN clientStarts + 1 ELSE clientStarts
     /\ CASE o = "pending" -> UNCHANGED <<pc, result, proc, chan>>
          [] o = "stream" /\ startOk ->
               /\ pc' = "service"
               /\ UNCHANGED <<result, proc, chan>>
          [] o = "stream" /\ ~startOk -> Finish("err_service")
          [] OTHER -> Finish(o)
     /\ UNCHANGED <<buildVars, sessVars, services, focus, ctx, incoming, rdv, reqName, nextId, hp, remote,
                    hstate, slot, sent, reqLog, nread, svcStarts, pnfSeen, rqSent,
                    envVars>>

\* evt_loop.run(the client service's future)
ServiceStep(ok) ==
  /\ pc = "service"
  /\ proc["A"] = "up"
  /\ Finish(IF ok THEN "ok" ELSE "err_service")
  /\ UNCHANGED <<buildVars, sessVars, services, focus, ctx, incoming, rdv, reqName, nextId, hp, remote,
                 hstate, slot, sent, reqLog, nread, svcStarts, pnfSeen, rqVars, envVars>>

(***************************************************************************)
(* The environment: the bearer, the hole-punch transport, remote peers.    *)
(***************************************************************************)
\* The substreams whose far end is the environment and that exist.
EnvFed == Bearers \cup opened

\* The far end sends a control message to the handler of s.
EnvSend(s, m) ==
  /\ s \in EnvFed
  /\ s = focus
  /\ envEvents < MaxEnv
  /\ proc[Owner(s)] = "up"
  /\ hstate[s] \in {"unborn", "running"}
  /\ ~Closed(chan[s])
  /\ chan' = [chan EXCEPT ![s] = Append(@, m)]
  /\ envEvents' = envEvents + 1
  /\ UNCHANGED <<buildVars, sessVars, peerVars, runVars, hstate, slot, sent, reqLog, nread, svcStarts,
                 pnfSeen, rqVars, opened, wbroken>>

\* The far end closes s.
EnvClose(s) ==
  /\ s \in EnvFed
  /\ s = focus
  /\ envEvents < MaxEnv
  /\ proc[Owner(s)] = "up"
  /\ hstate[s] \in {"unborn", "running"}
  /\ ~Closed(chan[s])
  /\ chan' = [chan EXCEPT ![s] = Append(@, StreamEnd)]
  /\ envEvents' = envEvents + 1
  /\ UNCHANGED <<buildVars, sessVars, peerVars, runVars, hstate, slot, sent, reqLog, nread, svcStarts,
                 pnfSeen, rqVars, opened, wbroken>>

\* A target of run_service that is not a peer of this program answers on d.
EnvSendRq(m) ==
  /\ remote = "env"
  /\ focus = "d"
  /\ pc = "request"
  /\ envEvents < MaxEnv
  /\ ~Closed(rqIn)
  /\ rqIn' = Append(rqIn, m)
  /\ envEvents' = envEvents + 1
  /\ UNCHANGED <<buildVars, sessVars, peerVars, runVars, connVars, rqSlot, rqSeen, rqOut, clientStarts,
                 rqSent, opened, wbroken>>

\* A remote peer opens a substream towards p.
EnvOpen(s) ==
  /\ s \in Foreign \ opened
  /\ s = focus
  /\ proc[Owner(s)] = "up"
  /\ ctx[Owner(s)] = "open"
  /\ opened' = opened \cup {s}
  /\ incoming' = [incoming EXCEPT ![Owner(s)] = Append(@, s)]
  /\ UNCHANGED <<buildVars, sessVars, services, focus, proc, ctx, runVars, connVars, rqVars, wbroken, envEvents>>

\* The hole punch completes: the direct substream d exists.  Its far end is
\* the Context of B, or a target that is not modelled.
HolePunchReady(kind) ==
  /\ hp = "pending"
  /\ pc = "rendezvous"
  /\ kind = "peer" => (proc["B"] = "up" /\ ctx["B"] = "open")
  /\ kind = "env" => focus = "d"
  /\ hp' = "ready"
  /\ remote' = kind
  /\ incoming' = [incoming EXCEPT !["B"] = IF kind = "peer" THEN Append(@, "d") ELSE @]
  /\ UNCHANGED <<buildVars, sessVars, services, focus, proc, ctx, pc, result, rdv, reqName, nextId, connVars,
                 rqVars, envVars>>

\* Faults of the transport.
HolePunchFail ==
  /\ hp = "pending"
  /\ focus = "d"
  /\ pc = "rendezvous"
  /\ envEvents < MaxEnv
  /\ hp' = "failed"
  /\ envEvents' = envEvents + 1
  /\ UNCHANGED <<buildVars, sessVars, peerVars, pc, result, rdv, reqName, nextId, remote, connVars, rqVars,
                 opened, wbroken>>

ReadFail(s) ==
  /\ envEvents < MaxEnv
  /\ s = focus
  /\ s \in EnvFed \/ (s = "d" /\ remote = "peer")
  /\ proc[Owner(s)] = "up"
  /\ hstate[s] \in {"unborn", "running"}
  /\ ~Closed(chan[s])
  /\ chan' = [chan EXCEPT ![s] = Append(@, StreamErr)]
  /\ envEvents' = envEvents + 1
  /\ UNCHANGED <<buildVars, sessVars, peerVars, runVars, hstate, slot, sent, reqLog, nread, svcStarts,
                 pnfSeen, rqVars, opened, wbroken>>

ReadFailRq ==
  /\ envEvents < MaxEnv
  /\ focus = "d"
  /\ pc = "request"
  /\ ~Closed(rqIn)
  /\ rqIn' = Append(rqIn, StreamErr)
  /\ envEvents' = envEvents + 1
  /\ UNCHANGED <<buildVars, sessVars, peerVars, runVars, connVars, rqSlot, rqSeen, rqOut, clientStarts,
                 rqSent, opened, wbroken>>

BreakWrite(w) ==
  /\ envEvents < MaxEnv
  /\ focus = (IF w = "rq" THEN "d" ELSE w)
  /\ ~wbroken[w]
  /\ IF w = "rq"
       THEN pc \in {"start", "rendezvous"}
       ELSE proc[Owner(w)] = "up" /\ hstate[w] \in {"unborn", "running"}
  /\ wbroken' = [wbroken EXCEPT ![w] = TRUE]
  /\ envEvents' = envEvents + 1
  /\ UNCHANGED <<buildVars, sessVars, peerVars, runVars, connVars, rqVars, opened>>

CtxBreak(p, how) ==
  /\ envEvents < MaxEnv
  /\ focus = (IF p = "A" THEN "xa" ELSE "xb")
  /\ proc[p] = "up"
  /\ ctx[p] = "open"
  /\ ctx' = [ctx EXCEPT ![p] = how]
  /\ envEvents' = envEvents + 1
  /\ UNCHANGED <<buildVars, sessVars, services, focus, proc, incoming, runVars, connVars, rqVars, opened,
                 wbroken>>

Next ==
  \/ \E n \in Names : RunServiceStart(n)
  \/ RendezvousCon
  \/ \E b \in BOOLEAN : RequestStep(b)
  \/ \E b \in BOOLEAN : ServiceStep(b)
  \/ \E s \in HStreams, b \in BOOLEAN : ConnStep(s, b)
  \/ \E p \in Peers : PeerPollAccept(p)
  \/ \E s \in HStreams, m \in Protocol : EnvSend(s, m)
  \/ \E s \in HStreams : EnvClose(s)
  \/ \E m \in Protocol : EnvSendRq(m)
  \/ \E s \in Foreign : EnvOpen(s)
  \/ \E k \in {"peer", "env"} : HolePunchReady(k)
  \/ HolePunchFail
  \/ \E s \in HStreams : ReadFail(s)
  \/ ReadFailRq
  \/ \E w \in WSides : BreakWrite(w)
  \/ \E p \in Peers, how \in {"ended", "failed"} : CtxBreak(p, how)

Spec == Init /\ [][Next]_vars

\* The same program with event loops that poll every task that can make
\* progress: the steps of run_service, Peer::poll and every handler.
FairLoops ==
  /\ WF_vars(RendezvousCon)
  /\ WF_vars(\E b \in BOOLEAN : RequestStep(b))
  /\ WF_vars(\E b \in BOOLEAN : ServiceStep(b))
  /\ \A s \in HStreams : WF_vars(\E b \in BOOLEAN : ConnStep(s, b))
  /\ \A p \in Peers : WF_vars(PeerPollAccept(p))

\* The peer B serving its inbound substreams: the environment acts on the
\* substream a remote peer opened towards B, or on the direct connection.
InitServing == Init /\ focus \in {"xb", "d"}

SpecServing == InitServing /\ [][Next]_vars /\ FairLoops

(***************************************************************************)
(* The build phase: register_service is called on the builder of each      *)
(* peer, any number of times, with any name and any service.  Nothing runs *)
(* yet: no substream exists.                                               *)
(***************************************************************************)
MaxCalls == 3

InitBuild ==
  /\ services = [p \in Peers |-> NoServices]
  /\ regCalls = [p \in Peers |-> <<>>]
  /\ proc = [p \in Peers |-> "up"]
  /\ pc = "start"
  /\ result = "none"
  /\ reqName = "none"
  /\ nextId = 0
  /\ hp = "idle"
  /\ remote = "none"
  /\ ctx = [p \in Peers |-> "open"]
  /\ incoming = [p \in Peers |-> <<>>]
  /\ opened = {}
  /\ chan = [s \in HStreams |-> <<>>]
  /\ hstate = [s \in HStreams |-> "unborn"]
  /\ slot = [s \in HStreams |-> FALSE]
  /\ sent = [s \in HStreams |-> <<>>]
  /\ reqLog = [s \in HStreams |-> <<>>]
  /\ nread = [s \in HStreams |-> 0]
  /\ svcStarts = [s \in HStreams |-> 0]
  /\ wbroken = [w \in WSides |-> FALSE]
  /\ rqIn = <<>>
  /\ rqSlot = FALSE
  /\ rqSeen = <<>>
  /\ rqOut = "none"
  /\ clientStarts = 0
  /\ rqSent = 0
  /\ rdv = "none"
  /\ pnfSeen = {}
  /\ envEvents = 0
  /\ focus = "d"
  /\ NewBuilderKeys
  /\ NoSession

\* PeerBuilder::register_service on the builder of p, with a service whose
\* name() is n.
RegisterService(p, n, i) ==
  /\ Len(regCalls[p]) < MaxCalls
  /\ services' = [services EXCEPT ![p] = Insert(@, n, i)]
  /\ regCalls' = [regCalls EXCEPT ![p] = Append(@, Call(n, i))]
  /\ UNCHANGED <<keyVars, sessVars, focus, proc, ctx, incoming, runVars, connVars, rqVars, envVars>>

NextBuild == \E p \in Peers, n \in Names, i \in Impls : RegisterService(p, n, i)

SpecBuild == InitBuild /\ [][NextBuild]_vars

(***************************************************************************)
(* The key of a peer (src/src/peer_builder.rs): set_private_key and        *)
(* set_private_key_file are called on the builder of each peer, in any     *)
(* order, and then build.  A key is some key material in one encoding; the *)
(* content of a key file is known when build reads it.                     *)
(***************************************************************************)
MaxSets == 2

Formats == {"PEM", "DER"}
KeyData == [key : {"k1", "k2"}, enc : Formats]
\* The keys handed over in memory and the keys found in files.
MemoryKeys == {d \in KeyData : d.key = "k1"}
FileKeys == {d \in KeyData : d.key = "k2"}
\* File::open or read_to_end failed.
IoError == [key |-> "", enc |-> "io_error"]
Paths == {"key.pem"}

Some(v) == [some |-> TRUE, val |-> v]

Ok(k) == [ok |-> TRUE, key |-> k, err |-> ""]
Err(e) == [ok |-> FALSE, key |-> "", err |-> e]

MemoryCall(f, d) == [fn |-> "set_private_key", format |-> f, data |-> d]
FileCall(path) == [fn |-> "set_private_key_file", path |-> path]

\* The builder of p can still be used: build takes it by value.
Building(p) == built[p].kind = "none"

\* PeerBuilder::set_private_key
SetPrivateKey(p, f, d) ==
  /\ Building(p)
  /\ Len(keyCalls[p]) < MaxSets
  /\ private_key' = [private_key EXCEPT ![p] = Some([format |-> f, data |-> d])]
  /\ keyCalls' = [keyCalls EXCEPT ![p] = Append(@, MemoryCall(f, d))]
  /\ UNCHANGED <<private_key_file, built>>
  /\ UNCHANGED <<regCalls, sessVars, peerVars, runVars, connVars, rqVars, envVars>>

\* PeerBuilder::set_private_key_file
SetPrivateKeyFile(p, path) ==
  /\ Building(p)
  /\ Len(keyCalls[p]) < MaxSets
  /\ private_key_file' = [private_key_file EXCEPT ![p] = Some(path)]
  /\ keyCalls' = [keyCalls EXCEPT ![p] = Append(@, FileCall(path))]
  /\ UNCHANGED <<private_key, built>>
  /\ UNCHANGED <<regCalls, sessVars, peerVars, runVars, connVars, rqVars, envVars>>

\* PeerBuilder::load_private_key_from_memory: the data is parsed in the
\* given format.
LoadPrivateKeyFromMemory(f, d) == IF d.enc = f THEN Ok(d.key) ELSE Err("err_key")

\* PeerBuilder::load_private_key_from_file: the file is read and parsed as
\* PEM.
LoadPrivateKeyFromFile(content) ==
  IF content = IoError THEN Err("err_io") ELSE LoadPrivateKeyFromMemory("PEM", content)

\* Variant: the key file is looked at first.
LoadPrivateKey_FileFirst(pk, pkf, content) ==
  IF pkf.some THEN LoadPrivateKeyFromFile(content)
  ELSE IF pk.some THEN LoadPrivateKeyFromMemory(pk.val.format, pk.val.data)
  ELSE Err("no_private_key")

\* PeerBuilder::load_private_key; content is what reading the key file
\* gives.
LoadPrivateKey(pk, pkf, content) ==
  IF pk.some THEN LoadPrivateKeyFromMemory(pk.val.format, pk.val.data)
  ELSE IF pkf.some THEN LoadPrivateKeyFromFile(content)
  ELSE Err("no_private_key")

\* PubKeyHash::from_private_key: the identity of the peer.
PubKeyHash(k) == [hash_of |-> k]

Failed(e) == [kind |-> "err", why |-> e, identity |-> ""]
BuiltPeer(k) == [kind |-> "peer", why |-> "", identity |-> PubKeyHash(k)]

\* PeerBuilder::build.  ctxOk: PubKeyHash::from_private_key, config.build and
\* Context::new all return Ok.
Build(p, content, ctxOk) ==
  LET k == LoadPrivateKey(private_key[p], private_key_file[p], content)
  IN /\ Building(p)
     /\ built' = [built EXCEPT ![p] =
                    IF ~k.ok THEN Failed(k.err)
                    ELSE IF ~ctxOk THEN Failed("err_context")
                    ELSE BuiltPeer(k.key)]
     /\ UNCHANGED <<private_key, private_key_file, keyCalls>>
     /\ UNCHANGED <<regCalls, sessVars, peerVars, runVars, connVars, rqVars, envVars>>

NextKeys ==
  \/ \E p \in Peers, f \in Formats, d \in MemoryKeys : SetPrivateKey(p, f, d)
  \/ \E p \in Peers, path \in Paths : SetPrivateKeyFile(p, path)
  \/ \E p \in Peers, c \in FileKeys \cup {IoError}, b \in BOOLEAN : Build(p, c, b)

SpecKeys == InitBuild /\ [][NextKeys]_vars

(***************************************************************************)
(* Scenario S2 of the specification: a bearer, the peer B and the client   *)
(* A, nothing else and no transport fault.  The bearer answers the Hello   *)
(* of each peer and relays ConnectToPeer to B; the hole punch may complete.*)
(* The event loops poll every task that can make progress.                 *)
(***************************************************************************)
FromBearer(s) == nread[s] + Len(chan[s])

BearerHello(s) ==
  /\ s \in Bearers
  /\ proc[Owner(s)] = "up"
  /\ FromBearer(s) = 0
  /\ chan' = [chan EXCEPT ![s] = Append(@, Hello)]
  /\ UNCHANGED <<buildVars, sessVars, peerVars, runVars, hstate, slot, sent, reqLog, nread, svcStarts,
                 pnfSeen, rqVars, envVars>>

BearerRelay ==
  /\ proc["B"] = "up"
  /\ FromBearer("bb") = 1
  /\ hp = "pending"
  /\ chan' = [chan EXCEPT !["bb"] = Append(@, ConnectToPeer)]
  /\ UNCHANGED <<buildVars, sessVars, peerVars, runVars, hstate, slot, sent, reqLog, nread, svcStarts,
                 pnfSeen, rqVars, envVars>>

InitS2 == Init /\ focus = "d"

NextS2 ==
  \/ \E n \in Names : RunServiceStart(n)
  \/ RendezvousCon
  \/ \E b \in BOOLEAN : RequestStep(b)
  \/ \E b \in BOOLEAN : ServiceStep(b)
  \/ \E s \in HStreams, b \in BOOLEAN : ConnStep(s, b)
  \/ \E p \in Peers : PeerPollAccept(p)
  \/ HolePunchReady("peer")
  \/ \E s \in Bearers : BearerHello(s)
  \/ BearerRelay

FairS2 ==
  /\ WF_vars(RendezvousCon)
  /\ WF_vars(\E b \in BOOLEAN : RequestStep(b))
  /\ WF_vars(\E b \in BOOLEAN : ServiceStep(b))
  /\ \A s \in HStreams : WF_vars(\E b \in BOOLEAN : ConnStep(s, b))
  /\ \A p \in Peers : WF_vars(PeerPollAccept(p))

SpecS2 == InitS2 /\ [][NextS2]_vars /\ FairS2

(***************************************************************************)
(* A service session of the test service: run_client on one side, the      *)
(* Server registered by start_peer on the other.  Both services were       *)
(* started on the promoted substream `Initial`; the peers' own variables   *)
(* play no part and keep their initial values.  The session transport      *)
(* (Streams, NewStreamHandle) follows section 4.3 of the specification:    *)
(* Streams yields the promoted substream and then the substreams the other *)
(* side opened, in the order it opened them.                               *)
(***************************************************************************)
PayloadLen == 22
TEST_SERVICE_DATA ==
  <<72, 69, 82, 80, 33, 68, 69, 82, 80, 33, 84, 69, 83, 84, 33,
    83, 69, 82, 86, 73, 67, 69>>

\* Variant: the initial substream is counted twice.
TotalStreamNum_Sum(sn, rsn) == sn + rsn

\* run_client: total_stream_num.
TotalStreamNum(sn, rsn) == sn + rsn - 1
total_stream_num == TotalStreamNum(stream_num["client"], stream_num["server"])

\* run_client: the value the result is compared with.
RECURSIVE Cycle(_, _)
Cycle(d, n) == IF n = 0 THEN <<>> ELSE d \o Cycle(d, n - 1)

InitSession ==
  /\ InitPeers
  /\ focus = "d"
  /\ stream_num \in [Sides -> 1..MaxOpen]
  /\ toOpen = [side \in Sides |-> stream_num[side] - 1]
  /\ wire = [side \in Sides |-> <<>>]
  /\ feed = [side \in Sides |-> <<Initial>>]
  /\ payload = [st \in AllStreams |-> <<>>]
  /\ written = [st \in AllStreams |-> 0]
  /\ taken = {}
  /\ readers = {}
  /\ nreadS = [st \in AllStreams |-> 0]
  /\ recvq = <<>>
  /\ foldRes = <<>>
  /\ data = "pending"

\* Client::start, the take(total_stream_num) in front of for_each.
TakeOpen == Cardinality(taken) < total_stream_num

\* Client::start, the closure of for_each: a reader task is spawned.
ClientForEach(st) ==
  /\ taken' = taken \cup {st}
  /\ readers' = readers \cup {st}
  /\ UNCHANGED <<payload, written>>

\* Server::start, the closure of for_each: the payload is written once.
ServerForEach(st) ==
  /\ payload' = [payload EXCEPT ![st] = Append(@, TEST_SERVICE_DATA)]
  /\ written' = [written EXCEPT ![st] = @ + 1]
  /\ UNCHANGED <<taken, readers>>

ForEach(side, st) ==
  IF side = "client" THEN ClientForEach(st) ELSE ServerForEach(st)

\* One of the new_stream futures of `side` resolves inside the select and
\* the substream goes through for_each; the other side will see it.
NewStream(side) ==
  /\ toOpen[side] > 0
  /\ side = "client" => TakeOpen
  /\ LET st == Opened(side, stream_num[side] - toOpen[side])
     IN /\ wire' = [wire EXCEPT ![side] = Append(@, st)]
        /\ ForEach(side, st)
  /\ toOpen' = [toOpen EXCEPT ![side] = @ - 1]
  /\ UNCHANGED <<stream_num, feed, nreadS, recvq, foldRes, data>>
  /\ UNCHANGED <<buildVars, peerVars, runVars, connVars, rqVars, envVars>>

\* A substream opened by `side` arrives in the feed of the other side.
Deliver(side) ==
  /\ wire[side] # <<>>
  /\ wire' = [wire EXCEPT ![side] = Tail(@)]
  /\ feed' = [feed EXCEPT ![Other(side)] = Append(@, Head(wire[side]))]
  /\ UNCHANGED <<stream_num, toOpen, payload, written, taken, readers, nreadS,
                 recvq, foldRes, data>>
  /\ UNCHANGED <<buildVars, peerVars, runVars, connVars, rqVars, envVars>>

\* The Streams of `side` yields the next substream of its feed inside the
\* select and the substream goes through for_each.
StreamsNext(side) ==
  /\ feed[side] # <<>>
  /\ side = "client" => TakeOpen
  /\ feed' = [feed EXCEPT ![side] = Tail(@)]
  /\ ForEach(side, Head(feed[side]))
  /\ UNCHANGED <<stream_num, toOpen, wire, nreadS, recvq, foldRes, data>>
  /\ UNCHANGED <<buildVars, peerVars, runVars, connVars, rqVars, envVars>>

\* Client::start, a reader task: stream.into_future() resolves with the
\* first chunk, which is sent into the channel; the sender clone is dropped.
Reader(st) ==
  /\ st \in readers
  /\ payload[st] # <<>>
  /\ recvq' = Append(recvq, Head(payload[st]))
  /\ payload' = [payload EXCEPT ![st] = Tail(@)]
  /\ nreadS' = [nreadS EXCEPT ![st] = @ + 1]
  /\ readers' = readers \ {st}
  /\ UNCHANGED <<stream_num, toOpen, wire, feed, written, taken, foldRes, data>>
  /\ UNCHANGED <<buildVars, peerVars, runVars, connVars, rqVars, envVars>>

\* Client::start, recv.fold: one chunk is appended to res.
Fold ==
  /\ data = "pending"
  /\ recvq # <<>>
  /\ foldRes' = foldRes \o Head(recvq)
  /\ recvq' = Tail(recvq)
  /\ UNCHANGED <<stream_num, toOpen, wire, feed, payload, written, taken, readers,
                 nreadS, data>>
  /\ UNCHANGED <<buildVars, peerVars, runVars, connVars, rqVars, envVars>>

\* The channel ends once every sender is gone: the one owned by for_each,
\* dropped when take has let total_stream_num substreams through, and the
\* clone of every reader task.  The fold, and with it run_service, resolves.
SendersGone == ~TakeOpen /\ readers = {}

FoldDone ==
  /\ data = "pending"
  /\ recvq = <<>>
  /\ SendersGone
  /\ data' = "ok"
  /\ UNCHANGED <<stream_num, toOpen, wire, feed, payload, written, taken, readers,
                 nreadS, recvq, foldRes>>
  /\ UNCHANGED <<buildVars, peerVars, runVars, connVars, rqVars, envVars>>

NextSession ==
  \/ \E side \in Sides : NewStream(side)
  \/ \E side \in Sides : Deliver(side)
  \/ \E side \in Sides : StreamsNext(side)
  \/ \E st \in AllStreams : Reader(st)
  \/ Fold
  \/ FoldDone

FairSession ==
  /\ \A side \in Sides : WF_vars(NewStream(side)) /\ WF_vars(Deliver(side))
                          /\ WF_vars(StreamsNext(side))
  /\ \A st \in AllStreams : WF_vars(Reader(st))
  /\ WF_vars(Fold)
  /\ WF_vars(FoldDone)

SpecSession == InitSession /\ [][NextSession]_vars /\ FairSession

(***************************************************************************)
(* Properties                                                              *)
(***************************************************************************)
IsResponse(m) == m \in {ServiceConnectionEstablished, ServiceNotFound}
\* The responses the handler of s sent, in order.
Responses(s) == SelectSeq(sent[s], IsResponse)
Expected(s, n) ==
  IF Registered(Owner(s), n) THEN ServiceConnectionEstablished ELSE ServiceNotFound

\* C1 as stated: every RequestService{name} a handler consumed has exactly
\* one response, ServiceConnectionEstablished if name is registered and
\* ServiceNotFound if not; none is left without a response.
C1_Original ==
  \A s \in HStreams :
    /\ Len(Responses(s)) = Len(reqLog[s])
    /\ \A i \in 1..Len(reqLog[s]) : Responses(s)[i] = Expected(s, reqLog[s][i])

\* C1, amended: every RequestService{name} a handler consumed has exactly one
\* response, the one its name calls for, except the last one when the send
\* of its response failed: that one has no response and the handler ended
\* with the send error.
C1_Responses ==
  \A s \in HStreams :
    /\ Len(Responses(s)) = Len(reqLog[s]) - (IF hstate[s] = "err_send" THEN 1 ELSE 0)
    /\ \A i \in 1..Len(Responses(s)) : Responses(s)[i] = Expected(s, reqLog[s][i])

C1_Witness ==
  \E s \in HStreams :
    /\ reqLog[s] = <<"nope", "echo">>
    /\ Responses(s) = <<ServiceNotFound, ServiceConnectionEstablished>>

\* C2: once the handler of a substream handed it to a service, the handler
\* consumes and sends nothing more on it; once RequestService returned the
\* promoted substream, it consumes and sends nothing more on it.
C2_NoControlAfterPromotion ==
  [][/\ \A s \in HStreams :
          svcStarts[s] > 0 => (nread'[s] = nread[s] /\ sent'[s] = sent[s])
     /\ rqOut = "stream" => (rqSeen' = rqSeen /\ rqSent' = rqSent)]_vars

C2_Witness ==
  /\ svcStarts["d"] = 1
  /\ rqOut = "stream"
  /\ \E s \in HStreams : svcStarts[s] = 1 /\ chan[s] # <<>>

\* C3 as stated: the rendezvous step never ends in anything but the direct
\* connection being ready, peer-unreachable or bearer-lost (a transport
\* error is left aside here), and after a failure no request is sent.
C3_Claim ==
  /\ rdv \in {"none", "pending", "ready", "peer_unreachable", "bearer_lost",
              "err_transport"}
  /\ rdv \in {"peer_unreachable", "bearer_lost"} => (rqSent = 0 /\ result = rdv)

\* C4 as stated: when the bearer handler of A consumed PeerNotFound during
\* the rendezvous, run_service failed with PeerUnreachable, the handler is
\* still dispatching and the process did not abort.
C4_Claim ==
  "ba" \in pnfSeen =>
    /\ result = "peer_unreachable"
    /\ hstate["ba"] = "running"
    /\ proc["A"] # "panicked"

\* C5: when the bearer connection handler of A completed while run_service
\* waited for the direct connection, run_service failed with bearer-lost:
\* it got no connection, sent no RequestService, started no client service.
C5_BearerLost ==
  hstate["ba"] = "done" =>
    /\ result = "bearer_lost"
    /\ rdv = "bearer_lost"
    /\ rqSent = 0
    /\ rqOut = "none"
    /\ clientStarts = 0

C5_Witness ==
  /\ hstate["ba"] = "done"
  /\ svcStarts["ba"] = 0
  /\ result = "bearer_lost"

\* C6: the outcome of RequestService is that of the first item among
\* ServiceConnectionEstablished, ServiceNotFound and end of stream that it
\* consumed, which is also the last item it consumed; every other message
\* before it was skipped; until then the request is pending.
Decisive == {"ServiceConnectionEstablished", "ServiceNotFound", "EOF"}
OutcomeOf(ty) ==
  CASE ty = "ServiceConnectionEstablished" -> "stream"
    [] ty = "ServiceNotFound" -> "service_not_found"
    [] ty = "EOF" -> "conn_closed"
    [] OTHER -> "err_transport"
C6_FirstEventDecides ==
  /\ \A i \in 1..Len(rqSeen) :
       rqSeen[i] \in Decisive \cup {"ERR"} =>
         (i = Len(rqSeen) /\ rqOut = OutcomeOf(rqSeen[i]))
  /\ (rqSeen = <<>> \/ Last(rqSeen) \notin Decisive \cup {"ERR"})
       => rqOut \in {"none", "pending"}
  /\ rqOut = "stream" => ~rqSlot /\ clientStarts = 1
  /\ rqOut \in {"service_not_found", "conn_closed"} => result = rqOut /\ clientStarts = 0

C6_Witness ==
  /\ Len(rqSeen) >= 2
  /\ rqSeen[1] \notin Decisive \cup {"ERR"}
  /\ rqOut \in {"stream", "service_not_found", "conn_closed"}

\* C7: once run_service has requested a name that B has not registered, the
\* client service is never started and run_service returns nothing but
\* ServiceNotFound; it does return it, and the direct substream is then
\* held neither by A nor by the connection handler of B.
Unregistered == reqName \in Names /\ ~Registered("B", reqName)
HeldByInitiator == hp = "ready" /\ pc \in {"rendezvous", "request", "service"}
HeldByHandler == proc["B"] = "up" /\ hstate["d"] = "running" /\ slot["d"]
C7_NotFoundReleases ==
  /\ []((rqSent > 0 /\ Unregistered) =>
          (clientStarts = 0 /\ result \in {"none", "service_not_found"}))
  /\ (rqSent > 0 /\ Unregistered) ~>
       [](result = "service_not_found" /\ ~HeldByInitiator /\ ~HeldByHandler)

C7_Witness ==
  /\ Unregistered
  /\ result = "service_not_found"
  /\ sent["d"] = <<ServiceNotFound>>
  /\ hstate["d"] = "done"
  /\ clientStarts = 0
  /\ ~HeldByInitiator

\* C8: with the client opening c-1 and the server s-1 further substreams and
\* the server writing the 22-byte payload once on every substream it sees,
\* run_service resolves; when it has, the client has received exactly c+s-1
\* substreams and read one payload from each, and the result is the payload
\* repeated c+s-1 times.
SessionCount == stream_num["client"] + stream_num["server"] - 1
C8_SessionCompletes ==
  /\ <>(data = "ok")
  /\ [](\A st \in AllStreams : written[st] <= 1 /\ nreadS[st] <= written[st])
  /\ [](data = "ok" =>
        /\ Cardinality(taken) = SessionCount
        /\ \A st \in AllStreams : nreadS[st] = (IF st \in taken THEN 1 ELSE 0)
        /\ \A st \in taken : written[st] = 1
        /\ Len(foldRes) = PayloadLen * SessionCount
        /\ \A i \in 1..Len(foldRes) :
             foldRes[i] = TEST_SERVICE_DATA[((i - 1) % PayloadLen) + 1])

C8_Witness ==
  /\ data = "ok"
  /\ stream_num = [side \in Sides |-> MaxOpen]
  /\ Len(foldRes) = PayloadLen * (MaxOpen + MaxOpen - 1)
  /\ foldRes = Cycle(TEST_SERVICE_DATA, total_stream_num)

C12_Claim ==
  \A s \in HStreams :
    nread[s] = Len(reqLog[s]) => (Responses(s) = <<>> /\ svcStarts[s] = 0)

\* C13: a handler consumes one item per step, the oldest one of its
\* substream; when it consumes an item, every RequestService it consumed
\* before has its response on the substream already; the responses are in
\* the order of the requests they answer.
C13_InOrder ==
  /\ [](\A s \in HStreams :
          /\ Len(Responses(s)) <= Len(reqLog[s])
          /\ \A i \in 1..Len(Responses(s)) :
               Responses(s)[i] = Expected(s, reqLog[s][i]))
  /\ [][\A s \in HStreams :
          nread'[s] # nread[s] =>
            /\ nread'[s] = nread[s] + 1
            /\ Len(Responses(s)) = Len(reqLog[s])
            /\ chan[s] # <<>>
            /\ SubSeq(chan'[s], 1, Len(chan[s]) - 1) = Tail(chan[s])
            /\ reqLog'[s] = IF Head(chan[s]).type = "RequestService"
                               THEN Append(reqLog[s], Head(chan[s]).name)
                               ELSE reqLog[s]]_vars

C13_Witness ==
  \E s \in HStreams :
    /\ reqLog[s] = <<"nope", "nope">>
    /\ nread[s] = 2
    /\ Responses(s) = <<ServiceNotFound, ServiceNotFound>>

\* C14: a handler that consumes Hello, ConnectToPeer,
\* ServiceConnectionEstablished or ServiceNotFound stays as it was: still
\* running, still owning its substream, the service map the same, nothing
\* sent, no service started.  A RequestService future that consumes a
\* message other than ServiceConnectionEstablished and ServiceNotFound
\* stays pending with its substream, and run_service stays where it was.
Ignored == {"Hello", "ConnectToPeer", "ServiceConnectionEstablished", "ServiceNotFound"}
Responding == {"ServiceConnectionEstablished", "ServiceNotFound", "EOF", "ERR"}
C14_OthersIgnored ==
  /\ [][\A s \in HStreams :
          (nread'[s] = nread[s] + 1 /\ Head(chan[s]).type \in Ignored) =>
            /\ hstate[s] = "running" /\ hstate'[s] = "running"
            /\ slot[s] /\ slot'[s]
            /\ services' = services
            /\ sent' = sent
            /\ svcStarts' = svcStarts
            /\ reqLog' = reqLog
            /\ proc' = proc]_vars
  /\ [][(Len(rqSeen') = Len(rqSeen) + 1 /\ Last(rqSeen') \notin Responding) =>
          /\ rqOut = "pending" /\ rqOut' = "pending"
          /\ rqSlot /\ rqSlot'
          /\ pc' = pc /\ result' = result
          /\ clientStarts' = clientStarts /\ rqSent' = rqSent]_vars

C14_Witness ==
  \E s \in HStreams :
    /\ nread[s] = 2
    /\ chan[s] = <<>>
    /\ reqLog[s] = <<>>
    /\ s \notin pnfSeen
    /\ hstate[s] = "running"
    /\ slot[s]
    /\ sent[s] = (IF s \in Bearers THEN SendHello ELSE <<>>)

\* C15: the step in which the handler of an accepted substream ends with a
\* read error or a send error changes nothing but that handler and its
\* substream: the process, the accept loop and every other handler stay as
\* they were.  A substream that waits to be accepted is accepted as long as
\* the peer polls its accept loop, whatever happened to other handlers.
Inbound == HStreams \ Bearers
HandlerErrors == {"err_read", "err_send"}
Waiting(s) == \E i \in 1..Len(incoming[Owner(s)]) : incoming[Owner(s)][i] = s
C15_ErrorIsLocal ==
  /\ [][\A s \in Inbound :
          (hstate[s] = "running" /\ hstate'[s] \in HandlerErrors) =>
            /\ proc' = proc /\ ctx' = ctx /\ incoming' = incoming
            /\ pc' = pc /\ result' = result
            /\ \A u \in HStreams \ {s} :
                 /\ hstate'[u] = hstate[u] /\ slot'[u] = slot[u]
                 /\ chan'[u] = chan[u] /\ sent'[u] = sent[u]
                 /\ svcStarts'[u] = svcStarts[u]]_vars
  /\ \A s \in Inbound :
       Waiting(s) ~> (hstate[s] # "unborn" \/ ~PeerPolled(Owner(s)))

C15_Witness ==
  /\ hstate["xb"] \in HandlerErrors
  /\ proc["B"] = "up"
  /\ hstate["d"] = "done"
  /\ svcStarts["d"] = 1
  /\ hstate["bb"] = "running"

\* C16 as stated: when the bearer connection of the running peer B was
\* closed (its handler read the end of the stream), B has not terminated.
C16_Claim ==
  (hstate["bb"] = "done" /\ svcStarts["bb"] = 0) => proc["B"] = "up"

\* C17: after any sequence of register_service calls the service map holds,
\* for each name, the service of the last call with that name (none if no
\* call had it), and it has as many entries as distinct names were given.
CallsOf(p, n) == {k \in 1..Len(regCalls[p]) : regCalls[p][k].name = n}
LastCallOf(p, n) == CHOOSE k \in CallsOf(p, n) : \A j \in CallsOf(p, n) : j <= k
C17_LastCallWins ==
  \A p \in Peers :
    /\ \A n \in Names :
         services[p][n] =
           IF CallsOf(p, n) = {} THEN NoService ELSE regCalls[p][LastCallOf(p, n)].impl
    /\ Cardinality({n \in Names : services[p][n] # NoService})
         = Cardinality({regCalls[p][k].name : k \in 1..Len(regCalls[p])})

C17_Witness ==
  /\ regCalls["B"] = <<Call("echo", "s1"), Call("nope", "s1"), Call("echo", "s2")>>
  /\ services["B"] = [n \in Names |-> IF n = "echo" THEN "s2" ELSE "s1"]

\* C18: no step of a built peer changes its service map, and any two
\* RequestService messages for the same name that handlers of the same peer
\* answered got the same response, whatever the substreams and the times.
C18_MapReadOnly ==
  /\ [][services' = services]_vars
  /\ [](\A p \in Peers : services[p] = Registrations)
  /\ [](\A s \in HStreams, u \in HStreams :
          Owner(s) = Owner(u) =>
            \A i \in 1..Len(Responses(s)), j \in 1..Len(Responses(u)) :
              reqLog[s][i] = reqLog[u][j] => Responses(s)[i] = Responses(u)[j])

C18_Witness ==
  /\ reqLog["xb"] = <<"nope", "echo">>
  /\ reqLog["d"] = <<"echo">>
  /\ Responses("xb") = <<ServiceNotFound, ServiceConnectionEstablished>>
  /\ Responses("d") = <<ServiceConnectionEstablished>>

\* The order of the steps of run_service: ConnectToPeer is sent after the
\* connection id was generated, RequestService after the direct connection
\* was ready, Client::start after ServiceConnectionEstablished was received;
\* a step that failed is the last one, and run_service returns Ok only with
\* the outcome of the client service.
IsConnectToPeer(m) == m = ConnectToPeer
StepsInOrder ==
  /\ Len(SelectSeq(sent["ba"], IsConnectToPeer)) <= nextId
  /\ nextId <= 1
  /\ rqSent > 0 =>
       (rdv = "ready" /\ Len(SelectSeq(sent["ba"], IsConnectToPeer)) = 1)
  /\ clientStarts > 0 =>
       (rqSent = 1 /\ rqSeen # <<>> /\ Last(rqSeen) = "ServiceConnectionEstablished")
  /\ rdv \notin {"none", "pending", "ready"} => (rqSent = 0 /\ clientStarts = 0)
  /\ rqOut \notin {"none", "pending", "stream"} => clientStarts = 0
  /\ result = "ok" => (clientStarts = 1 /\ rqOut = "stream")
  /\ pc = "service" => clientStarts = 1

\* C19 as stated: the steps are in order, and a step that fails ends
\* run_service with an error: run_service never ends in a panic.
C19_Claim ==
  /\ StepsInOrder
  /\ result # "panic"
  /\ proc["A"] # "panicked"

\* C20 as stated: no service is ever started on a bearer substream, and a
\* bearer handler that has ended successfully ended with its substream (at
\* the end of the stream), not by handing it over.
C20_Claim ==
  \A s \in Bearers : svcStarts[s] = 0 /\ (hstate[s] = "done" => slot[s])

\* C9 as stated: a RequestService for a registered name that a handler
\* consumes after it answered one with ServiceNotFound is answered with
\* ServiceConnectionEstablished and starts the service.
AfterMiss(s, j) ==
  /\ Registered(Owner(s), reqLog[s][j])
  /\ \E i \in 1..(j - 1) : ~Registered(Owner(s), reqLog[s][i])
C9_Original ==
  \A s \in HStreams : \A j \in 1..Len(reqLog[s]) :
    AfterMiss(s, j) =>
      /\ Len(Responses(s)) >= j
      /\ Responses(s)[j] = ServiceConnectionEstablished
      /\ svcStarts[s] = 1

\* C9, amended: the step that sends ServiceNotFound leaves the handler
\* running with its substream; a later RequestService for a registered name
\* is answered with ServiceConnectionEstablished and starts the service,
\* unless the send fails (no response, the handler ends with the error) or
\* Server::spawn fails (the response was sent, the handler ends with the
\* error).
C9_StateAfterMiss ==
  \A s \in HStreams : \A j \in 1..Len(reqLog[s]) :
    AfterMiss(s, j) =>
      \/ /\ Len(Responses(s)) = j
         /\ Responses(s)[j] = ServiceConnectionEstablished
         /\ \/ svcStarts[s] = 1 /\ hstate[s] = "done"
            \/ svcStarts[s] = 0 /\ hstate[s] = "err_spawn"
      \/ /\ Len(Responses(s)) = j - 1
         /\ svcStarts[s] = 0
         /\ hstate[s] = "err_send"
C9_MissKeepsHandler ==
  /\ []C9_StateAfterMiss
  /\ [][\A s \in HStreams :
          (Len(sent'[s]) > Len(sent[s]) /\ Last(sent'[s]) = ServiceNotFound)
            => (hstate'[s] = "running" /\ slot'[s])]_vars

C9_Witness ==
  \E s \in HStreams :
    /\ reqLog[s] = <<"nope", "echo">>
    /\ svcStarts[s] = 1
    /\ hstate[s] = "done"

\* C10: a substream end has at most one owner.  On the handler side: the
\* handler (its slot is filled) or the service it was handed to, never
\* both; a service is started at most once per substream, and when it was,
\* the handler has ended successfully with an empty slot.  On the side of
\* run_service: the RequestService future or the client service, never both.
C10_SingleOwner ==
  /\ \A s \in HStreams :
       /\ svcStarts[s] <= 1
       /\ slot[s] => svcStarts[s] = 0
       /\ svcStarts[s] = 1 => (hstate[s] = "done" /\ ~slot[s])
  /\ clientStarts <= 1
  /\ rqSlot => clientStarts = 0

C10_Witness ==
  /\ svcStarts["d"] = 1
  /\ hstate["d"] = "done"
  /\ ~slot["d"]
  /\ clientStarts = 1
  /\ ~rqSlot

(***************************************************************************)
(* The key rule of build.                                                  *)
(***************************************************************************)
IsMemoryCall(c) == c.fn = "set_private_key"
IsFileCall(c) == c.fn = "set_private_key_file"

\* set_private_key was called on the builder of p after set_private_key_file.
MemoryAfterFile(p) ==
  \E i, j \in 1..Len(keyCalls[p]) :
    i < j /\ IsFileCall(keyCalls[p][i]) /\ IsMemoryCall(keyCalls[p][j])

\* The key given by the last call of set_private_key on the builder of p.
LastMemoryKey(p) == Last(SelectSeq(keyCalls[p], IsMemoryCall)).data

\* C21: build fails and creates no Peer when neither key setter was called;
\* when set_private_key was called after set_private_key_file, the key file
\* is not read and a Peer that is built has the identity derived from the
\* key given in memory.
C21_KeyRule ==
  \A p \in Peers :
    ~Building(p) =>
      /\ keyCalls[p] = <<>> => (built[p].kind = "err" /\ built[p].why = "no_private_key")
      /\ MemoryAfterFile(p) =>
           /\ built[p].why # "err_io"
           /\ built[p].kind = "peer" =>
                built[p].identity = PubKeyHash(LastMemoryKey(p).key)

\* The builder of A was built without a key; the builder of B was given a
\* key file and then a key in memory, and a peer was built from it.
C21_Witness ==
  /\ keyCalls["A"] = <<>> /\ built["A"].kind = "err"
  /\ MemoryAfterFile("B") /\ built["B"].kind = "peer"

(***************************************************************************)
(* The stream slots.                                                       *)
(***************************************************************************)
\* The request future of run_service is being polled.
Requesting == pc = "request"

\* C22: a connection handler or a service request that can still be polled
\* has its stream slot filled, and so has the bearer handler when
\* run_service starts; a slot is empty only once its state machine has
\* returned.
C22_SlotFilled ==
  /\ \A s \in HStreams : hstate[s] = "running" => slot[s]
  /\ Requesting => rqSlot
  /\ pc = "start" => slot["ba"]

\* Both kinds of slot were emptied: the handler of d handed the substream to
\* the service, the request returned the promoted substream.
C22_Witness ==
  /\ hstate["d"] = "done" /\ svcStarts["d"] = 1 /\ ~slot["d"]
  /\ rqOut = "stream" /\ ~rqSlot /\ ~Requesting

(***************************************************************************)
(* A response that cannot be sent.                                         *)
(***************************************************************************)
\* This step is the handler of s consuming a RequestService.
ConsumesRequest(s) == Len(reqLog'[s]) = Len(reqLog[s]) + 1

\* A handler that ended with a send error holds its substream and started
\* no service; a service was started only after the response was sent.
SendErrorState ==
  \A s \in HStreams :
    /\ hstate[s] = "err_send" => (slot[s] /\ svcStarts[s] = 0)
    /\ svcStarts[s] > 0 =>
         (sent[s] # <<>> /\ Last(sent[s]) = ServiceConnectionEstablished)

\* A request consumed while the responses cannot be sent ends the handler
\* with the send error: nothing is sent, no service is started, the
\* substream stays in the handler; afterwards the handler consumes nothing.
SendErrorStep ==
  \A s \in HStreams :
    /\ (ConsumesRequest(s) /\ wbroken[s]) =>
         /\ hstate'[s] = "err_send"
         /\ slot'[s]
         /\ svcStarts'[s] = svcStarts[s]
         /\ sent'[s] = sent[s]
    /\ hstate[s] = "err_send" =>
         (hstate'[s] = "err_send" /\ nread'[s] = nread[s] /\ sent'[s] = sent[s])

\* C23: when ServiceConnectionEstablished or ServiceNotFound cannot be sent
\* the handler ends with that error, keeps the substream, starts no service
\* and consumes no further message; a service is started only after
\* ServiceConnectionEstablished was sent on the substream.
C23_SendFailureEnds == []SendErrorState /\ [][SendErrorStep]_vars

\* The response to a request for the registered service could not be sent.
C23_Witness ==
  \E s \in HStreams :
    /\ hstate[s] = "err_send"
    /\ wbroken[s]
    /\ reqLog[s] # <<>> /\ Last(reqLog[s]) = "echo"

(***************************************************************************)
(* run_service after the rendezvous.                                       *)
(***************************************************************************)
\* The rendezvous step of run_service returned the direct connection.
RendezvousDone == rdv = "ready"

\* The bearer handler of A takes no step and the accept loop of A takes no
\* substream and spawns no handler.
PeerNotDriven ==
  /\ nread'["ba"] = nread["ba"]
  /\ hstate'["ba"] = hstate["ba"]
  /\ slot'["ba"] = slot["ba"]
  /\ Len(incoming'["A"]) >= Len(incoming["A"])
  /\ hstate["xa"] = "unborn" => hstate'["xa"] = "unborn"

\* The outcome of run_service is set by the request, by the client service
\* or by a panic on the event loop.
OutcomeFromRun ==
  result' # result =>
    \/ result' = "panic"
    \/ pc = "request" /\ rqSeen' # rqSeen
    \/ pc = "service" /\ result' \in {"ok", "err_service"}

\* C24: once the rendezvous step has returned the direct connection,
\* run_service drives neither the bearer handler nor the accept loop: a
\* closure of the bearer substream or an inbound substream changes neither
\* the outcome of run_service nor spawns a handler.
C24_PeerLeftAlone == [][RendezvousDone => (PeerNotDriven /\ OutcomeFromRun)]_vars

\* run_service returned the result of the client service although the
\* bearer substream was closed and the closure was never read.
C24_Witness ==
  /\ RendezvousDone
  /\ result = "ok"
  /\ Closed(chan["ba"])
  /\ nread["ba"] = 0

====
